---- MODULE Spec2Model ----
(***************************************************************************)
(* Model of internal/handler/config/create.go: the Create handler, its     *)
(* constructor NewHandler with the options WithTracer and WithProcessors,  *)
(* ServeHTTP and writeResponse.  The collaborators the handler calls       *)
(* (tracer and span, http.ResponseWriter, the processors) are modelled by  *)
(* the calls made on them, kept in order in each request's log, and, for   *)
(* the ResponseWriter, by the net/http rules that decide what is sent.     *)
(***************************************************************************)
EXTENDS Integers, Sequences, FiniteSets, TLC

\* ------------------------------------------------------------------ bounds
\* longest processor list given to one WithProcessors option
MaxProcs == 2
\* longest option list given to NewHandler
MaxOpts == 2
\* most values of the request's Content-Type header
MaxHeaderVals == 1
\* longest request body, in bytes
MaxBody == 2

\* ------------------------------------------------------- program constants
StatusOK == 200
StatusBadRequest == 400
StatusMethodNotAllowed == 405
StatusInternalServerError == 500

\* --------------------------------------------------------------- universes
\* nil, as an error value and as a provider-less tracer
NULL == "nil"
\* a trace.Tracer: who made it and its name
NilTracer == [provider |-> NULL, name |-> ""]
\* processors that can be registered
Procs == {"p1", "p2"}
\* tracers a caller can inject (besides nil)
Tracers == {[provider |-> "caller", name |-> "t1"]}
\* request methods: the accepted one, another one, and a differently cased one
Methods == {"POST", "GET", "post"}
\* Content-Type values: the accepted one, another type, the accepted one with a
\* parameter
MediaTypes == {"application/yaml", "application/json", "application/yaml; charset=utf-8"}
\* error texts a processor can return
ErrTexts == {"boom", "Configuration received"}
\* uuid.Nil, the zero value of uuid.UUID
NilUUID == 0
\* values uuid.New can return (version 4, so never uuid.Nil)
NewUUIDs == {1, 2}

SeqsUpTo(S, n) == UNION {[1..k -> S] : k \in 0..n}

ProcLists == SeqsUpTo(Procs, MaxProcs)

\* ------------------------------------------------------------ construction
\* The zero value &Create{}: nil tracer, nil (empty) processor slice.
ZeroCreate == [tracer |-> NilTracer, processors |-> <<>>]

\* An option is a closure over its argument; it is kept as the name of the
\* function that made it and the captured argument.
WithTracer(tracer) == [fn |-> "WithTracer", tracer |-> tracer, processors |-> <<>>]

WithProcessors(processors) ==
    [fn |-> "WithProcessors", tracer |-> NilTracer, processors |-> processors]

Options ==
    {WithTracer(t) : t \in Tracers \cup {NilTracer}} \cup {WithProcessors(ps) : ps \in ProcLists}

OptLists == SeqsUpTo(Options, MaxOpts)

\* The body of the closure WithProcessors returns, with an appending variant.
SetProcessorsAppend(hh, processors) == [hh EXCEPT !.processors = @ \o processors]

SetProcessors(hh, processors) == [hh EXCEPT !.processors = processors]

\* The body of the closure WithTracer returns.
SetTracer(hh, tracer) == [hh EXCEPT !.tracer = tracer]

\* opt(h)
ApplyOpt(opt, hh) ==
    IF opt.fn = "WithTracer" THEN SetTracer(hh, opt.tracer)
    ELSE SetProcessors(hh, opt.processors)

\* otel.Tracer("config")
OtelTracer(name) == [provider |-> "otel", name |-> name]

\* if h.tracer == nil { h.tracer = otel.Tracer("config") }, and a variant
\* without the default
KeepTracer(hh) == hh

DefaultTracer(hh) ==
    IF hh.tracer = NilTracer THEN [hh EXCEPT !.tracer = OtelTracer("config")] ELSE hh

VARIABLES
    pcNew,    \* position in NewHandler: "call", "loop", "default", "return", "returned"
    opts,     \* NewHandler's argument
    optIdx,   \* number of options applied so far
    h,        \* NewHandler's local h (the zero value until it is allocated)
    handler,  \* the *Create NewHandler returned (the zero value until it returns)
    reqs,     \* the requests handed to ServeHTTP: request id -> its state
    env       \* what the libraries around the handler can do (see NoFaults)

vars == <<pcNew, opts, optIdx, h, handler, reqs, env>>


\* ------------------------------------------------------- the Response JSON
\* Response{}: the zero value; a struct literal that leaves ID out keeps uuid.Nil
ZeroResponse == [Success |-> FALSE, Message |-> "", ID |-> NilUUID]

\* uuid.UUID.String(): the canonical text form
UUIDString(u) ==
    CASE u = 0 -> "00000000-0000-0000-0000-000000000000"
      [] u = 1 -> "6ba7b810-9dad-41d1-80b4-00c04fd430c8"
      [] u = 2 -> "6ba7b811-9dad-41d1-80b4-00c04fd430c8"
      [] OTHER -> "6ba7b812-9dad-41d1-80b4-00c04fd430c8"

\* JSON text is kept as its sequence of tokens; a string is quote, text, quote.
JStr(s) == <<"\"", s, "\"">>

JBool(b) == IF b THEN <<"true">> ELSE <<"false">>

\* json.Marshal(resp) with the ID field not serialized
MarshalNoID(resp) ==
    [err |-> NULL,
     bytes |-> <<"{">> \o JStr("success") \o <<":">> \o JBool(resp.Success) \o <<",">>
               \o JStr("message") \o <<":">> \o JStr(resp.Message) \o <<"}">>]

\* json.Marshal(resp) for the struct tags success, message, id, in field
\* order; uuid.UUID is marshalled through its text form.  For a struct of a
\* bool, a string and a uuid.UUID json.Marshal returns no error.
Marshal(resp) ==
    [err |-> NULL,
     bytes |-> <<"{">> \o JStr("success") \o <<":">> \o JBool(resp.Success) \o <<",">>
               \o JStr("message") \o <<":">> \o JStr(resp.Message) \o <<",">>
               \o JStr("id") \o <<":">> \o JStr(UUIDString(resp.ID)) \o <<"}">>]

\* uuid.Parse, as UnmarshalText uses it: the UUID whose text form s is
AllUUIDs == {NilUUID} \cup NewUUIDs

ParseUUID(s) ==
    IF \E u \in AllUUIDs : UUIDString(u) = s
    THEN [err |-> NULL, id |-> CHOOSE u \in AllUUIDs : UUIDString(u) = s]
    ELSE [err |-> "invalid UUID", id |-> NilUUID]

\* The members of a JSON object, read from token i on: each member is a string
\* key, a colon and a string or boolean value; members are separated by commas
\* and the object ends with the closing brace as the last token.
RECURSIVE ParseMembers(_, _, _)
ParseMembers(toks, i, acc) ==
    IF i + 4 > Len(toks) \/ toks[i] # "\"" \/ toks[i + 2] # "\"" \/ toks[i + 3] # ":"
    THEN [ok |-> FALSE, members |-> <<>>]
    ELSE LET key == toks[i + 1]
             isStr == toks[i + 4] = "\"" /\ i + 6 <= Len(toks) /\ toks[i + 6] = "\""
             isBool == toks[i + 4] \in {"true", "false"}
             val == IF isStr THEN [key |-> key, type |-> "string", text |-> toks[i + 5]]
                    ELSE [key |-> key, type |-> "bool", text |-> toks[i + 4]]
             next == IF isStr THEN i + 7 ELSE i + 5
         IN  IF ~(isStr \/ isBool) \/ next > Len(toks)
             THEN [ok |-> FALSE, members |-> <<>>]
             ELSE IF toks[next] = "}"
                  THEN [ok |-> next = Len(toks), members |-> Append(acc, val)]
                  ELSE IF toks[next] = ","
                       THEN ParseMembers(toks, next + 1, Append(acc, val))
                       ELSE [ok |-> FALSE, members |-> <<>>]

ParseObject(toks) ==
    IF Len(toks) < 2 \/ toks[1] # "{" THEN [ok |-> FALSE, members |-> <<>>]
    ELSE IF toks[2] = "}" THEN [ok |-> Len(toks) = 2, members |-> <<>>]
    ELSE ParseMembers(toks, 2, <<>>)

\* One member stored into the Response being decoded: a known key takes a
\* value of its field's type, an unknown key is skipped.
RECURSIVE StoreMembers(_, _, _)
StoreMembers(members, j, acc) ==
    IF acc.err # NULL \/ j > Len(members) THEN acc
    ELSE LET m == members[j] IN
         StoreMembers(members, j + 1,
            CASE m.key = "success" ->
                    IF m.type = "bool"
                    THEN [acc EXCEPT !.resp.Success = (m.text = "true")]
                    ELSE [acc EXCEPT !.err = "cannot unmarshal into bool"]
              [] m.key = "message" ->
                    IF m.type = "string"
                    THEN [acc EXCEPT !.resp.Message = m.text]
                    ELSE [acc EXCEPT !.err = "cannot unmarshal into string"]
              [] m.key = "id" ->
                    IF m.type = "string" /\ ParseUUID(m.text).err = NULL
                    THEN [acc EXCEPT !.resp.ID = ParseUUID(m.text).id]
                    ELSE [acc EXCEPT !.err = "invalid UUID"]
              [] OTHER -> acc)

\* var resp Response; err := json.Unmarshal(bytes, &resp)
Unmarshal(bytes) ==
    LET p == ParseObject(bytes)
    IN  IF ~p.ok THEN [err |-> "invalid character", resp |-> ZeroResponse]
        ELSE StoreMembers(p.members, 1, [err |-> NULL, resp |-> ZeroResponse])

\* ------------------------------------------------- http.ResponseWriter
\* A ResponseWriter nothing was written to.  header is the header map being
\* built, status and sentType are what WriteHeader sent (0 and "" before it),
\* body holds the data of the successful Write calls.
NewWriter ==
    [header |-> "", wroteHeader |-> FALSE, status |-> 0, sentType |-> "", body |-> <<>>]

\* One call on a collaborator, as an entry of a request's log.
Call(op, k, v) == [op |-> op, k |-> k, v |-> v]

Logged(q, op, k, v) == [q EXCEPT !.log = Append(@, Call(op, k, v))]

\* w.Header().Set("Content-Type", v)
HeaderSet(q, v) ==
    [Logged(q, "w.Header.Set", "Content-Type", v) EXCEPT !.w.header = v]

\* w.WriteHeader(code).  net/http sends the status line once: a second call
\* is logged as superfluous and changes nothing.
WriteHeader(q, code) ==
    IF q.w.wroteHeader THEN Logged(q, "w.WriteHeader", "superfluous", code)
    ELSE [Logged(q, "w.WriteHeader", "", code) EXCEPT
            !.w.wroteHeader = TRUE, !.w.status = code, !.w.sentType = q.w.header]

\* w.Write(data); fails says whether the call returns an error.  A Write
\* before any WriteHeader sends 200 first.
Write(q, data, fails) ==
    LET q1 == IF q.w.wroteHeader THEN q
              ELSE [q EXCEPT !.w.wroteHeader = TRUE, !.w.status = StatusOK,
                             !.w.sentType = q.w.header]
        q2 == Logged(q1, "w.Write", IF fails THEN "err" ELSE "ok", data)
    IN  IF fails THEN q2 ELSE [q2 EXCEPT !.w.body = Append(@, data)]

\* http.Error(w, msg, code): plain-text content type, WriteHeader, the message
\* and a newline.
HttpError(q, msg, code, fails) ==
    Write(WriteHeader(HeaderSet(q, "text/plain; charset=utf-8"), code), <<msg, "\n">>, fails)

\* ------------------------------------------------------------ the span
SpanSetAttributes(q, k, v) == Logged(q, "span.SetAttributes", k, v)

SpanSetStatus(q, code, desc) == Logged(q, "span.SetStatus", code, desc)

SpanRecordError(q, err) == Logged(q, "span.RecordError", "", err)

SpanEnd(q) == Logged(q, "span.End", "", "")

\* ------------------------------------------------------------ writeResponse
\* the Content-Type values a request can carry
Headers == SeqsUpTo(MediaTypes, MaxHeaderVals)

\* the bodies a request can carry; the content is opaque to the handler, so a
\* byte is named by its offset
Bodies == {[j \in 1..n |-> j] : n \in 0..MaxBody}

\* the requests a client can send
Requests == [method : Methods, header : Headers, body : Bodies]

\* the requests of two clients of one handler: a rejected request and an
\* accepted one with a one-byte body
TwoClientRequests ==
    {[method |-> "GET", header |-> <<"application/yaml">>, body |-> <<>>],
     [method |-> "POST", header |-> <<"application/yaml">>, body |-> <<1>>]}

\* The surroundings of the program as built: clients send any request, a
\* Write on the response stream can fail, json.Marshal returns no error for
\* a Response (a bool, a string and a uuid.UUID always serialize).
NoFaults == [marshal |-> {FALSE}, write |-> BOOLEAN, clients |-> "any"]

\* Surroundings in which json.Marshal can also return an error.
MarshalFaults == [marshal |-> BOOLEAN, write |-> BOOLEAN, clients |-> "any"]

\* the requests that arrive in the surroundings
Arriving == IF env.clients = "two" THEN TwoClientRequests ELSE Requests

\* What the libraries do in one call of writeResponse: whether json.Marshal
\* returns an error, whether the Write of the body fails, and whether the
\* Write inside http.Error fails.
IOOutcomes == [marshal : env.marshal, write1 : env.write, write2 : env.write]

\* respBody, err := json.Marshal(resp)
MarshalResult(resp, fails) ==
    IF fails THEN [err |-> "json: unsupported value", bytes |-> <<>>] ELSE Marshal(resp)

\* writeResponse with the header and the status written before the Response
\* is serialized
writeResponseHeaderFirst(q, statusCode, resp, io) ==
    LET q0 == [q EXCEPT !.written = Append(@, [statusCode |-> statusCode, resp |-> resp])]
        qh == WriteHeader(HeaderSet(q0, "application/json"), statusCode)
        m == MarshalResult(resp, io.marshal)
        qm == Logged(qh, "json.Marshal", IF m.err # NULL THEN "err" ELSE "ok", "")
    IN  IF m.err # NULL
        THEN HttpError(SpanSetStatus(SpanRecordError(qm, m.err), "Error",
                                     "failed to marshal response"),
                       "Failed to marshal response", StatusInternalServerError, io.write1)
        ELSE LET q1 == Write(qm, m.bytes, io.write1)
             IN  IF io.write1
                 THEN HttpError(SpanSetStatus(SpanRecordError(q1, "write failed"), "Error",
                                              "failed to write response"),
                                "Failed to write response", StatusInternalServerError,
                                io.write2)
                 ELSE q1

\* writeResponse(span, w, statusCode, resp).  written keeps the arguments of
\* every call.
writeResponse(q, statusCode, resp, io) ==
    LET q0 == [q EXCEPT !.written = Append(@, [statusCode |-> statusCode, resp |-> resp])]
        m == MarshalResult(resp, io.marshal)
        qm == Logged(q0, "json.Marshal", IF m.err # NULL THEN "err" ELSE "ok", "")
    IN  IF m.err # NULL
        THEN HttpError(SpanSetStatus(SpanRecordError(qm, m.err), "Error",
                                     "failed to marshal response"),
                       "Failed to marshal response", StatusInternalServerError, io.write1)
        ELSE LET q1 == Write(WriteHeader(HeaderSet(qm, "application/json"), statusCode),
                             m.bytes, io.write1)
             IN  IF io.write1
                 THEN HttpError(SpanSetStatus(SpanRecordError(q1, "write failed"), "Error",
                                              "failed to write response"),
                                "Failed to write response", StatusInternalServerError,
                                io.write2)
                 ELSE q1

\* ------------------------------------------------------------------ ServeHTTP
\* A request ServeHTTP was not called with yet.
IdleRequest ==
    [pc |-> "Idle", method |-> "", header |-> <<>>, body |-> <<>>, pos |-> 0,
     cancelled |-> FALSE, id |-> NilUUID, i |-> 0,
     log |-> <<>>, w |-> NewWriter, written |-> <<>>]

\* r.Header.Get("Content-Type"): the first value, "" when there is none
HeaderGet(header) == IF header = <<>> THEN "" ELSE header[1]

\* return without the deferred call
ReturnNoEnd(q) == [q EXCEPT !.pc = "Returned"]

\* return, with the deferred span.End()
Return(q) == [SpanEnd(q) EXCEPT !.pc = "Returned"]

\* lines 63-67: start the span, generate the id, attach it to the span
ServeHTTPStart(q, hd, method, header, body, id) ==
    SpanSetAttributes(
        Logged([q EXCEPT !.pc = "Started", !.method = method, !.header = header,
                         !.body = body, !.id = id],
               "tracer.Start", hd.tracer.name, "CreateConfig"),
        "id", UUIDString(id))

\* lines 70-79 with the method compared without regard to case
CheckMethodFold(q, io) ==
    IF q.method \notin {"POST", "post"}
    THEN Return(writeResponse(
            SpanSetStatus(SpanSetAttributes(q, "method", q.method), "Error",
                          "invalid request method"),
            StatusMethodNotAllowed,
            [ZeroResponse EXCEPT !.Success = FALSE, !.Message = "Invalid request method"],
            io))
    ELSE [q EXCEPT !.pc = "MethodChecked"]

\* lines 70-79
CheckMethod(q, io) ==
    IF q.method # "POST"
    THEN Return(writeResponse(
            SpanSetStatus(SpanSetAttributes(q, "method", q.method), "Error",
                          "invalid request method"),
            StatusMethodNotAllowed,
            [ZeroResponse EXCEPT !.Success = FALSE, !.Message = "Invalid request method"],
            io))
    ELSE [q EXCEPT !.pc = "MethodChecked"]

\* the media type of a Content-Type value, without its parameters
MediaType(v) == IF v = "application/yaml; charset=utf-8" THEN "application/yaml" ELSE v

\* lines 82-90 with the header's media type compared, parameters ignored
CheckContentTypeMediaType(q, io) ==
    IF MediaType(HeaderGet(q.header)) # "application/yaml"
    THEN Return(writeResponse(
            SpanSetStatus(SpanSetAttributes(q, "content-type", HeaderGet(q.header)), "Error",
                          "invalid request content type"),
            StatusBadRequest,
            [ZeroResponse EXCEPT !.Success = FALSE, !.Message = "Invalid content type"],
            io))
    ELSE [q EXCEPT !.pc = "ContentTypeChecked"]

\* lines 82-90 without the return after writeResponse
CheckContentTypeNoReturn(q, io) ==
    IF HeaderGet(q.header) # "application/yaml"
    THEN [writeResponse(
            SpanSetStatus(SpanSetAttributes(q, "content-type", HeaderGet(q.header)), "Error",
                          "invalid request content type"),
            StatusBadRequest,
            [ZeroResponse EXCEPT !.Success = FALSE, !.Message = "Invalid content type"],
            io) EXCEPT !.pc = "ContentTypeChecked"]
    ELSE [q EXCEPT !.pc = "ContentTypeChecked"]

\* lines 82-90
CheckContentType(q, io) ==
    IF HeaderGet(q.header) # "application/yaml"
    THEN Return(writeResponse(
            SpanSetStatus(SpanSetAttributes(q, "content-type", HeaderGet(q.header)), "Error",
                          "invalid request content type"),
            StatusBadRequest,
            [ZeroResponse EXCEPT !.Success = FALSE, !.Message = "Invalid content type"],
            io))
    ELSE [q EXCEPT !.pc = "ContentTypeChecked"]

\* line 94 with the stream rewound for each processor
InvokeRewind(q, hd) ==
    [Logged(q, "p.Process", hd.processors[q.i + 1], "") EXCEPT
        !.pc = "Processing", !.i = q.i + 1, !.pos = 0]

\* lines 93-94: the loop takes the next processor and calls p.Process(ctx, r.Body)
Invoke(q, hd) ==
    [Logged(q, "p.Process", hd.processors[q.i + 1], "") EXCEPT
        !.pc = "Processing", !.i = q.i + 1]

\* The processor being called reads the next byte of the stream it was given:
\* r.Body is one stream with one read position, pos.
BodyRead(q, hd) ==
    [Logged(q, "r.Body.Read", hd.processors[q.i], q.body[q.pos + 1]) EXCEPT
        !.pos = q.pos + 1]

\* The request's context is cancelled (the client went away, a deadline
\* passed) while ServeHTTP runs.
CtxCancel(q) == [Logged(q, "ctx.cancel", "", "") EXCEPT !.cancelled = TRUE]

\* lines 94-101 with the error's text as the response message
ProcessReturnLeak(q, hd, err, io) ==
    LET q0 == Logged(q, "p.Process.return", hd.processors[q.i], err)
    IN  IF err # NULL
        THEN Return(writeResponse(
                SpanSetStatus(q0, "Error", err),
                StatusInternalServerError,
                [ZeroResponse EXCEPT !.Success = FALSE, !.Message = err],
                io))
        ELSE [q0 EXCEPT !.pc = "Loop"]

\* lines 94-101 with the loop going on after a failure
ProcessReturnNoStop(q, hd, err, io) ==
    LET q0 == Logged(q, "p.Process.return", hd.processors[q.i], err)
    IN  IF err # NULL
        THEN [SpanSetStatus(q0, "Error", err) EXCEPT !.pc = "Loop"]
        ELSE [q0 EXCEPT !.pc = "Loop"]

\* lines 94-101 with a failed processor called again
ProcessReturnRetry(q, hd, err, io) ==
    LET q0 == Logged(q, "p.Process.return", hd.processors[q.i], err)
    IN  IF err # NULL
        THEN [q0 EXCEPT !.pc = "Loop", !.i = q.i - 1]
        ELSE [q0 EXCEPT !.pc = "Loop"]

\* lines 94-101 with the error acted on only under a caller's tracer
ProcessReturnTraced(q, hd, err, io) ==
    LET q0 == Logged(q, "p.Process.return", hd.processors[q.i], err)
    IN  IF err # NULL /\ hd.tracer.provider = "caller"
        THEN Return(writeResponse(
                SpanSetStatus(q0, "Error", err),
                StatusInternalServerError,
                [ZeroResponse EXCEPT !.Success = FALSE,
                                     !.Message = "Failed to process configuration"],
                io))
        ELSE [q0 EXCEPT !.pc = "Loop"]

\* lines 94-101 with the generated id in the failure response
ProcessReturnWithID(q, hd, err, io) ==
    LET q0 == Logged(q, "p.Process.return", hd.processors[q.i], err)
    IN  IF err # NULL
        THEN Return(writeResponse(
                SpanSetStatus(q0, "Error", err),
                StatusInternalServerError,
                [ZeroResponse EXCEPT !.Success = FALSE,
                                     !.Message = "Failed to process configuration",
                                     !.ID = q.id],
                io))
        ELSE [q0 EXCEPT !.pc = "Loop"]

\* lines 94-101: p.Process returned err
ProcessReturn(q, hd, err, io) ==
    LET q0 == Logged(q, "p.Process.return", hd.processors[q.i], err)
    IN  IF err # NULL
        THEN Return(writeResponse(
                SpanSetStatus(q0, "Error", err),
                StatusInternalServerError,
                [ZeroResponse EXCEPT !.Success = FALSE,
                                     !.Message = "Failed to process configuration"],
                io))
        ELSE [q0 EXCEPT !.pc = "Loop"]

\* lines 104-111 with a cancelled context answered as a failure
SucceedUnlessCancelled(q, io) ==
    IF q.cancelled
    THEN Return(writeResponse(
            SpanSetStatus(q, "Error", "context canceled"),
            StatusInternalServerError,
            [ZeroResponse EXCEPT !.Success = FALSE,
                                 !.Message = "Failed to process configuration"],
            io))
    ELSE Return(writeResponse(
            SpanSetAttributes(q, "success", "true"),
            StatusOK,
            [ZeroResponse EXCEPT !.Success = TRUE, !.Message = "Configuration received",
                                 !.ID = q.id],
            io))

\* lines 104-111 with the ID field left out of the Response
SucceedNoID(q, io) ==
    Return(writeResponse(
        SpanSetAttributes(q, "success", "true"),
        StatusOK,
        [ZeroResponse EXCEPT !.Success = TRUE, !.Message = "Configuration received"],
        io))

\* lines 104-111: the loop is over
Succeed(q, io) ==
    Return(writeResponse(
        SpanSetAttributes(q, "success", "true"),
        StatusOK,
        [ZeroResponse EXCEPT !.Success = TRUE, !.Message = "Configuration received",
                             !.ID = q.id],
        io))

\* ------------------------------------------------------------------ actions
\* what p.Process can return
ProcessResults == {NULL} \cup ErrTexts

Init ==
    /\ pcNew = "call"
    /\ opts \in OptLists
    /\ optIdx = 0
    /\ h = ZeroCreate
    /\ handler = ZeroCreate
    /\ reqs = [r \in {1} |-> IdleRequest]
    /\ env = NoFaults

\* the same, in surroundings where json.Marshal can fail
InitMarshalFaults ==
    /\ pcNew = "call"
    /\ opts \in OptLists
    /\ optIdx = 0
    /\ h = ZeroCreate
    /\ handler = ZeroCreate
    /\ reqs = [r \in {1} |-> IdleRequest]
    /\ env = MarshalFaults

\* Two clients of one handler; the response stream takes every Write.
TwoClients == [marshal |-> {FALSE}, write |-> {FALSE}, clients |-> "two"]

\* the handlers the two clients are served by
TwoClientsOpts ==
    {<<>>,
     <<WithProcessors(<<"p1", "p2">>)>>,
     <<WithTracer([provider |-> "caller", name |-> "t1"]), WithProcessors(<<"p1">>)>>}

\* one handler, two requests that the transport can run at the same time
InitConcurrent ==
    /\ pcNew = "call"
    /\ opts \in TwoClientsOpts
    /\ optIdx = 0
    /\ h = ZeroCreate
    /\ handler = ZeroCreate
    /\ reqs = [r \in {1, 2} |-> IdleRequest]
    /\ env = TwoClients

\* line 34: h := &Create{}
NewHandlerAlloc ==
    /\ pcNew = "call"
    /\ h' = ZeroCreate
    /\ pcNew' = "loop"
    /\ UNCHANGED <<opts, optIdx, handler, reqs, env>>

\* lines 36-38: the next option is applied to h
NewHandlerApply ==
    /\ pcNew = "loop"
    /\ optIdx < Len(opts)
    /\ h' = ApplyOpt(opts[optIdx + 1], h)
    /\ optIdx' = optIdx + 1
    /\ UNCHANGED <<pcNew, opts, handler, reqs, env>>

\* lines 40-42: after the loop, the default tracer
NewHandlerDefault ==
    /\ pcNew = "loop"
    /\ optIdx = Len(opts)
    /\ h' = DefaultTracer(h)
    /\ pcNew' = "return"
    /\ UNCHANGED <<opts, optIdx, handler, reqs, env>>

\* line 44: return h; the call's frame (opts, the loop index, h) is gone
NewHandlerReturn ==
    /\ pcNew = "return"
    /\ handler' = h
    /\ pcNew' = "returned"
    /\ opts' = <<>>
    /\ optIdx' = 0
    /\ h' = ZeroCreate
    /\ UNCHANGED <<reqs, env>>

\* ServeHTTP is called with request r
Start(r) ==
    /\ pcNew = "returned"
    /\ reqs[r].pc = "Idle"
    /\ \E req \in Arriving, id \in NewUUIDs :
          reqs' = [reqs EXCEPT ![r] = ServeHTTPStart(@, handler, req.method, req.header,
                                                     req.body, id)]
    /\ UNCHANGED <<pcNew, opts, optIdx, h, handler, env>>

MethodCheck(r) ==
    /\ reqs[r].pc = "Started"
    /\ \E io \in IOOutcomes : reqs' = [reqs EXCEPT ![r] = CheckMethod(@, io)]
    /\ UNCHANGED <<pcNew, opts, optIdx, h, handler, env>>

ContentTypeCheck(r) ==
    /\ reqs[r].pc = "MethodChecked"
    /\ \E io \in IOOutcomes : reqs' = [reqs EXCEPT ![r] = CheckContentType(@, io)]
    /\ UNCHANGED <<pcNew, opts, optIdx, h, handler, env>>

\* the loop taking each processor off the handler's list as it calls it
DispatchConsuming(r) ==
    /\ reqs[r].pc \in {"ContentTypeChecked", "Loop"}
    /\ handler.processors # <<>>
    /\ reqs' = [reqs EXCEPT ![r] = [Logged(@, "p.Process", Head(handler.processors), "")
                                       EXCEPT !.pc = "Processing", !.i = @ + 1]]
    /\ handler' = [handler EXCEPT !.processors = Tail(@)]
    /\ UNCHANGED <<pcNew, opts, optIdx, h, env>>

\* the loop has a next processor: it is called
Dispatch(r) ==
    /\ reqs[r].pc \in {"ContentTypeChecked", "Loop"}
    /\ reqs[r].i < Len(handler.processors)
    /\ reqs' = [reqs EXCEPT ![r] = Invoke(@, handler)]
    /\ UNCHANGED <<pcNew, opts, optIdx, h, handler, env>>

\* the processor being called reads from the body
ProcessorReads(r) ==
    /\ reqs[r].pc = "Processing"
    /\ reqs[r].pos < Len(reqs[r].body)
    /\ reqs' = [reqs EXCEPT ![r] = BodyRead(@, handler)]
    /\ UNCHANGED <<pcNew, opts, optIdx, h, handler, env>>

\* the request's context is cancelled while ServeHTTP runs
Cancel(r) ==
    /\ reqs[r].pc \notin {"Idle", "Returned"}
    /\ ~reqs[r].cancelled
    /\ reqs' = [reqs EXCEPT ![r] = CtxCancel(@)]
    /\ UNCHANGED <<pcNew, opts, optIdx, h, handler, env>>

\* the processor being called returns
ProcessorReturns(r) ==
    /\ reqs[r].pc = "Processing"
    /\ \E err \in ProcessResults, io \in IOOutcomes :
          reqs' = [reqs EXCEPT ![r] = ProcessReturn(@, handler, err, io)]
    /\ UNCHANGED <<pcNew, opts, optIdx, h, handler, env>>

\* the loop has no next processor
Finish(r) ==
    /\ reqs[r].pc \in {"ContentTypeChecked", "Loop"}
    /\ reqs[r].i = Len(handler.processors)
    /\ \E io \in IOOutcomes : reqs' = [reqs EXCEPT ![r] = Succeed(@, io)]
    /\ UNCHANGED <<pcNew, opts, optIdx, h, handler, env>>

Next ==
    \/ NewHandlerAlloc
    \/ NewHandlerApply
    \/ NewHandlerDefault
    \/ NewHandlerReturn
    \/ \E r \in DOMAIN reqs : Start(r)
    \/ \E r \in DOMAIN reqs : MethodCheck(r)
    \/ \E r \in DOMAIN reqs : ContentTypeCheck(r)
    \/ \E r \in DOMAIN reqs : Dispatch(r)
    \/ \E r \in DOMAIN reqs : ProcessorReads(r)
    \/ \E r \in DOMAIN reqs : Cancel(r)
    \/ \E r \in DOMAIN reqs : ProcessorReturns(r)
    \/ \E r \in DOMAIN reqs : Finish(r)

Spec == Init /\ [][Next]_vars

SpecMarshalFaults == InitMarshalFaults /\ [][Next]_vars

SpecConcurrent == InitConcurrent /\ [][Next]_vars

\* ServeHTTP runs on its goroutine until it returns, and every processor it
\* calls returns: each step of a request that stays possible is taken.
Fairness ==
    /\ WF_vars(\E r \in DOMAIN reqs : MethodCheck(r))
    /\ WF_vars(\E r \in DOMAIN reqs : ContentTypeCheck(r))
    /\ WF_vars(\E r \in DOMAIN reqs : Dispatch(r))
    /\ WF_vars(\E r \in DOMAIN reqs : ProcessorReturns(r))
    /\ WF_vars(\E r \in DOMAIN reqs : Finish(r))

SpecLive == Init /\ [][Next]_vars /\ Fairness

\* ---------------------------------------------------------------- properties
\* The Write calls a request made on its ResponseWriter, in order.
Writes(q) == SelectSeq(q.log, LAMBDA e : e.op = "w.Write")

\* The processors a request invoked, in order, and what they returned.
Invocations(q) ==
    LET calls == SelectSeq(q.log, LAMBDA e : e.op = "p.Process")
    IN  [j \in 1..Len(calls) |-> calls[j].k]

Returns(q) ==
    LET rets == SelectSeq(q.log, LAMBDA e : e.op = "p.Process.return")
    IN  [j \in 1..Len(rets) |-> rets[j].v]

\* The request passed both validations.
Valid(q) == q.method = "POST" /\ HeaderGet(q.header) = "application/yaml"

\* Every processor the request invoked so far returned nil.
AllSucceeded(q) == \A j \in 1..Len(Returns(q)) : Returns(q)[j] = NULL

\* The caller is answered with this status and a JSON body with these success
\* and message fields: the status line sent carries the status and the JSON
\* content type, the first data handed to the response stream decodes to the
\* fields, and, when the stream took that data, it is the whole body.
Replied(q, status, success, message) ==
    /\ q.w.status = status
    /\ q.w.sentType = "application/json"
    /\ Len(Writes(q)) >= 1
    /\ LET d == Unmarshal(Writes(q)[1].v)
       IN  /\ d.err = NULL
           /\ d.resp.Success = success
           /\ d.resp.Message = message
    /\ Writes(q)[1].k = "ok" => q.w.body = <<Writes(q)[1].v>>

\* C1: every returned request whose method is not POST was answered 405 with
\* success=false and "Invalid request method", whatever its Content-Type; so a
\* request failing both checks gets the method failure, not the 400.
C1_InvalidMethod ==
    \A r \in DOMAIN reqs :
        (reqs[r].pc = "Returned" /\ reqs[r].method # "POST")
            => Replied(reqs[r], StatusMethodNotAllowed, FALSE, "Invalid request method")

\* a returned request that fails both the method and the content-type check
C1_Witness ==
    \E r \in DOMAIN reqs :
        /\ reqs[r].pc = "Returned"
        /\ reqs[r].method = "post"
        /\ HeaderGet(reqs[r].header) = "application/json"
        /\ reqs[r].w.status = StatusMethodNotAllowed

\* C2: every returned POST request whose Content-Type value is not exactly
\* "application/yaml" (missing, another type, or with parameters) was answered
\* 400 with success=false and "Invalid content type".
C2_InvalidContentType ==
    \A r \in DOMAIN reqs :
        (/\ reqs[r].pc = "Returned"
         /\ reqs[r].method = "POST"
         /\ HeaderGet(reqs[r].header) # "application/yaml")
            => Replied(reqs[r], StatusBadRequest, FALSE, "Invalid content type")

\* a returned POST whose Content-Type is the yaml type with a parameter
C2_Witness ==
    \E r \in DOMAIN reqs :
        /\ reqs[r].pc = "Returned"
        /\ reqs[r].method = "POST"
        /\ HeaderGet(reqs[r].header) = "application/yaml; charset=utf-8"
        /\ reqs[r].w.status = StatusBadRequest

\* C3: every returned valid request all of whose invoked processors returned
\* nil was answered 200 with success=true and "Configuration received", and
\* the id in the body is not uuid.Nil and is the one generated for the request
\* and set on its span as attribute id.
C3_Success ==
    \A r \in DOMAIN reqs :
        LET q == reqs[r] IN
        (q.pc = "Returned" /\ Valid(q) /\ AllSucceeded(q))
            => /\ Replied(q, StatusOK, TRUE, "Configuration received")
               /\ LET id == Unmarshal(Writes(q)[1].v).resp.ID
                  IN  /\ id # NilUUID
                      /\ id = q.id
                      /\ \E j \in 1..Len(q.log) :
                            /\ q.log[j].op = "span.SetAttributes"
                            /\ q.log[j].k = "id"
                            /\ q.log[j].v = UUIDString(id)

\* a returned valid request whose two processors both succeeded
C3_Witness ==
    \E r \in DOMAIN reqs :
        /\ reqs[r].pc = "Returned"
        /\ Valid(reqs[r])
        /\ Len(Returns(reqs[r])) = 2
        /\ AllSucceeded(reqs[r])
        /\ reqs[r].w.status = StatusOK

\* C4: every returned valid request one of whose processors returned an error
\* was answered 500 with success=false and "Failed to process configuration";
\* the body decodes to the same Response whatever the error's text, and the
\* text is set as the span's status description and is in no data written.
C4_ProcessorError ==
    \A r \in DOMAIN reqs :
        LET q == reqs[r] IN
        (q.pc = "Returned" /\ Valid(q) /\ ~AllSucceeded(q))
            => /\ Replied(q, StatusInternalServerError, FALSE,
                          "Failed to process configuration")
               /\ Unmarshal(Writes(q)[1].v).resp =
                     [Success |-> FALSE, Message |-> "Failed to process configuration",
                      ID |-> NilUUID]
               /\ LET err == Returns(q)[Len(Returns(q))]
                  IN  /\ \E j \in 1..Len(q.log) :
                            /\ q.log[j].op = "span.SetStatus"
                            /\ q.log[j].k = "Error"
                            /\ q.log[j].v = err
                      /\ \A j \in 1..Len(Writes(q)) :
                            \A t \in 1..Len(Writes(q)[j].v) : Writes(q)[j].v[t] # err

\* a returned valid request whose second processor failed
C4_Witness ==
    \E r \in DOMAIN reqs :
        /\ reqs[r].pc = "Returned"
        /\ Valid(reqs[r])
        /\ Len(Returns(reqs[r])) = 2
        /\ Returns(reqs[r])[2] = "boom"
        /\ reqs[r].w.status = StatusInternalServerError

\* C5: the processors a request invoked are always a prefix of the
\* registration list, in its order and one invocation per position; none is
\* invoked when a validation fails, none after one that returned an error; and
\* a returned valid request invoked the list up to and including the first
\* failing processor, the whole list when none failed.
C5_InvocationPrefix ==
    \A r \in DOMAIN reqs :
        LET q == reqs[r]
            inv == Invocations(q)
            ret == Returns(q)
        IN  /\ Len(inv) <= Len(handler.processors)
            /\ inv = SubSeq(handler.processors, 1, Len(inv))
            /\ Len(ret) <= Len(inv)
            /\ Len(inv) <= Len(ret) + 1
            /\ \A j \in 1..Len(ret) : ret[j] # NULL => j = Len(inv)
            /\ (q.pc # "Idle" /\ ~Valid(q)) => inv = <<>>
            /\ (q.pc = "Returned" /\ Valid(q))
                  => /\ Len(ret) = Len(inv)
                     /\ AllSucceeded(q) => inv = handler.processors

\* a returned request whose first of two processors failed: one invocation
C5_Witness ==
    \E r \in DOMAIN reqs :
        /\ reqs[r].pc = "Returned"
        /\ Len(handler.processors) = 2
        /\ handler.processors[1] # handler.processors[2]
        /\ Returns(reqs[r]) = <<"boom">>
        /\ Invocations(reqs[r]) = <<handler.processors[1]>>

\* C6: writeResponse is called at most once for a request at any time, and
\* exactly once for a request ServeHTTP returned from.
C6_OneResponse ==
    \A r \in DOMAIN reqs :
        /\ Len(reqs[r].written) <= 1
        /\ reqs[r].pc = "Returned" => Len(reqs[r].written) = 1

\* a request rejected by the content-type check, returned with one response
C6_Witness ==
    \E r \in DOMAIN reqs :
        /\ reqs[r].pc = "Returned"
        /\ reqs[r].method = "POST"
        /\ ~Valid(reqs[r])
        /\ Len(reqs[r].written) = 1

\* the four (status, success, message) combinations
Outcomes ==
    { <<StatusMethodNotAllowed, FALSE, "Invalid request method">>,
      <<StatusBadRequest, FALSE, "Invalid content type">>,
      <<StatusInternalServerError, FALSE, "Failed to process configuration">>,
      <<StatusOK, TRUE, "Configuration received">> }

\* C7: the JSON handed to the response stream decodes to a Response that,
\* with the status sent, is one of the four combinations; its id is the
\* generated one exactly when success is true, and uuid.Nil otherwise.
C7_FixedOutcomes ==
    \A r \in DOMAIN reqs :
        LET q == reqs[r] IN
        Len(Writes(q)) >= 1
            => LET d == Unmarshal(Writes(q)[1].v)
               IN  /\ d.err = NULL
                   /\ Len(q.written) >= 1
                   /\ d.resp = q.written[1].resp
                   /\ q.w.status = q.written[1].statusCode
                   /\ <<q.w.status, d.resp.Success, d.resp.Message>> \in Outcomes
                   /\ d.resp.Success <=> d.resp.ID = q.id
                   /\ ~d.resp.Success => d.resp.ID = NilUUID

\* a processor failure answered with the nil id
C7_Witness ==
    \E r \in DOMAIN reqs :
        /\ reqs[r].pc = "Returned"
        /\ ~AllSucceeded(reqs[r])
        /\ Len(Writes(reqs[r])) >= 1
        /\ Unmarshal(Writes(reqs[r])[1].v).resp.ID = NilUUID
        /\ reqs[r].id # NilUUID

\* The processor list the options s call for: the list of the last
\* WithProcessors option, empty when there is none.
ExpectedProcessors(s) ==
    LET W == {j \in 1..Len(s) : s[j].fn = "WithProcessors"}
    IN  IF W = {} THEN <<>>
        ELSE s[CHOOSE j \in W : \A k \in W : k <= j].processors

\* C8: while NewHandler applies its options and when it returns, h.processors
\* is the list of the last WithProcessors option applied so far (not the lists
\* appended), empty when none was applied; WithTracer options leave it alone.
C8_LastProcessorsWin ==
    pcNew \in {"loop", "return"}
        => h.processors = ExpectedProcessors(SubSeq(opts, 1, optIdx))

\* NewHandler about to return after two WithProcessors options with different
\* non-empty lists
C8_Witness ==
    /\ pcNew = "return"
    /\ Len(opts) = 2
    /\ opts[1].fn = "WithProcessors"
    /\ opts[2].fn = "WithProcessors"
    /\ opts[1].processors # <<>>
    /\ opts[2].processors # <<>>
    /\ opts[1].processors # opts[2].processors
    /\ h.processors = opts[2].processors

\* The tracer the options s call for: the one of the last WithTracer option
\* when it is not nil, else the global provider's tracer named "config".
ExpectedTracer(s) ==
    LET W == {j \in 1..Len(s) : s[j].fn = "WithTracer"}
        last == IF W = {} THEN NilTracer
                ELSE s[CHOOSE j \in W : \A k \in W : k <= j].tracer
    IN  IF last = NilTracer THEN [provider |-> "otel", name |-> "config"] ELSE last

\* C9: the handler NewHandler is about to return has the tracer its options
\* call for, and the handler it returned never has a nil tracer.
C9_TracerNeverNil ==
    /\ pcNew = "return" => (h.tracer = ExpectedTracer(opts) /\ h.tracer # NilTracer)
    /\ pcNew = "returned" => handler.tracer # NilTracer

\* NewHandler about to return after WithTracer(t1), WithTracer(nil)
C9_Witness ==
    /\ pcNew = "return"
    /\ Len(opts) = 2
    /\ opts[1].fn = "WithTracer"
    /\ opts[1].tracer # NilTracer
    /\ opts[2].fn = "WithTracer"
    /\ opts[2].tracer = NilTracer
    /\ h.tracer = [provider |-> "otel", name |-> "config"]

\* C10: whenever writing the Response to the response stream failed, the
\* status the caller was sent is 500.
C10_FailureIs500 ==
    \A r \in DOMAIN reqs :
        (/\ reqs[r].pc = "Returned"
         /\ Len(Writes(reqs[r])) >= 1
         /\ Writes(reqs[r])[1].k = "err")
            => reqs[r].w.status = StatusInternalServerError

\* C11: every Response the handler passed to writeResponse, serialized by
\* json.Marshal and decoded by json.Unmarshal, comes back without error and
\* equal in success, message and id; and the JSON handed to the response
\* stream is that serialization.
C11_RoundTrip ==
    \A r \in DOMAIN reqs :
        LET q == reqs[r] IN
        \A j \in 1..Len(q.written) :
            LET resp == q.written[j].resp
                back == Unmarshal(Marshal(resp).bytes)
            IN  /\ Marshal(resp).err = NULL
                /\ back.err = NULL
                /\ back.resp.Success = resp.Success
                /\ back.resp.Message = resp.Message
                /\ back.resp.ID = resp.ID
                /\ Len(Writes(q)) >= 1
                /\ Unmarshal(Writes(q)[1].v) = [err |-> NULL, resp |-> resp]

\* a success Response with generated id 2 was serialized and written
C11_Witness ==
    \E r \in DOMAIN reqs :
        /\ reqs[r].pc = "Returned"
        /\ Len(reqs[r].written) = 1
        /\ reqs[r].written[1].resp.Success
        /\ reqs[r].written[1].resp.ID = 2
        /\ Unmarshal(Writes(reqs[r])[1].v).resp.ID = 2

\* The WriteHeader calls a request made on its ResponseWriter, in order.
WriteHeaders(q) == SelectSeq(q.log, LAMBDA e : e.op = "w.WriteHeader")

\* The request's span was marked errored with this description.
SpanErrored(q, desc) ==
    \E j \in 1..Len(q.log) :
        /\ q.log[j].op = "span.SetStatus"
        /\ q.log[j].k = "Error"
        /\ q.log[j].v = desc

\* The request recorded an error on its span.
SpanRecorded(q) == \E j \in 1..Len(q.log) : q.log[j].op = "span.RecordError"

\* C12: when the Write of the serialized Response failed, the error is
\* recorded on the span, the span is marked errored with "failed to write
\* response", and the response stream saw nothing more: one WriteHeader call
\* and one Write call in all.
C12_NoSecondWrite ==
    \A r \in DOMAIN reqs :
        LET q == reqs[r] IN
        (q.pc = "Returned" /\ Len(Writes(q)) >= 1 /\ Writes(q)[1].k = "err")
            => /\ SpanRecorded(q)
               /\ SpanErrored(q, "failed to write response")
               /\ Len(WriteHeaders(q)) = 1
               /\ Len(Writes(q)) = 1

\* json.Marshal returned an error for the request's Response.
MarshalFailed(q) ==
    \E j \in 1..Len(q.log) : q.log[j].op = "json.Marshal" /\ q.log[j].k = "err"

\* The Content-Type values a request set on its ResponseWriter, in order.
HeaderSets(q) == SelectSeq(q.log, LAMBDA e : e.op = "w.Header.Set")

\* C13: when json.Marshal failed, the error is recorded on the span, the span
\* is marked errored with "failed to marshal response", the caller is sent a
\* plain-text 500 with the generic message, the JSON content type and the
\* computed status are never written, and writeResponse was called once.
C13_MarshalFailure ==
    \A r \in DOMAIN reqs :
        LET q == reqs[r] IN
        (q.pc = "Returned" /\ MarshalFailed(q))
            => /\ SpanRecorded(q)
               /\ SpanErrored(q, "failed to marshal response")
               /\ q.w.status = StatusInternalServerError
               /\ q.w.sentType = "text/plain; charset=utf-8"
               /\ \A j \in 1..Len(HeaderSets(q)) : HeaderSets(q)[j].v # "application/json"
               /\ Len(WriteHeaders(q)) = 1
               /\ WriteHeaders(q)[1].v = StatusInternalServerError
               /\ Len(Writes(q)) = 1
               /\ Writes(q)[1].v = <<"Failed to marshal response", "\n">>
               /\ Len(q.written) = 1

\* a request that had earned 200 and whose Response could not be serialized
C13_Witness ==
    \E r \in DOMAIN reqs :
        /\ reqs[r].pc = "Returned"
        /\ MarshalFailed(reqs[r])
        /\ reqs[r].written[1].statusCode = StatusOK
        /\ reqs[r].w.status = StatusInternalServerError

\* How many calls of one kind a request made.
Count(q, op) == Len(SelectSeq(q.log, LAMBDA e : e.op = op))

\* C14: on every exit path the first call of a request starts the one span,
\* named CreateConfig; the second attaches the generated id as attribute id,
\* before any validation and any write; the span is not ended while the
\* request is handled; a returned request has written its response and ended
\* the span once, as its last call.
C14_SpanOrder ==
    \A r \in DOMAIN reqs :
        LET q == reqs[r]
            n == Len(q.log)
        IN  q.pc # "Idle"
            => /\ n >= 2
               /\ q.log[1].op = "tracer.Start"
               /\ q.log[1].v = "CreateConfig"
               /\ Count(q, "tracer.Start") = 1
               /\ q.log[2].op = "span.SetAttributes"
               /\ q.log[2].k = "id"
               /\ q.log[2].v = UUIDString(q.id)
               /\ q.pc # "Returned" => Count(q, "span.End") = 0
               /\ q.pc = "Returned"
                    => /\ Count(q, "span.End") = 1
                       /\ q.log[n].op = "span.End"
                       /\ Count(q, "w.Write") >= 1
                       /\ q.w.wroteHeader

\* a request on each exit path has returned: here the one where the Response
\* of a rejected method could not be serialized
C14_Witness ==
    \E r \in DOMAIN reqs :
        /\ reqs[r].pc = "Returned"
        /\ reqs[r].method # "POST"
        /\ MarshalFailed(reqs[r])
        /\ reqs[r].log[Len(reqs[r].log)].op = "span.End"

\* The Write of the serialized Response returned an error.
WriteFailed(q) ==
    /\ ~MarshalFailed(q)
    /\ Len(Writes(q)) >= 1
    /\ Writes(q)[1].k = "err"

\* The terminal state of a returned request is one of the Failed states:
\* InvalidMethod, InvalidContentType, ProcessorError, SerializationError or
\* WriteError.  Otherwise it is Succeeded.
Failed(q) ==
    \/ q.method # "POST"
    \/ HeaderGet(q.header) # "application/yaml"
    \/ ~AllSucceeded(q)
    \/ MarshalFailed(q)
    \/ WriteFailed(q)

\* The span carries the attribute success=true.
SpanSuccess(q) ==
    \E j \in 1..Len(q.log) :
        /\ q.log[j].op = "span.SetAttributes"
        /\ q.log[j].k = "success"
        /\ q.log[j].v = "true"

\* The span has Error status.
SpanError(q) ==
    \E j \in 1..Len(q.log) : q.log[j].op = "span.SetStatus" /\ q.log[j].k = "Error"

\* C15: at span end the span carries success=true only if the request ended
\* in Succeeded, has Error status exactly if it ended in a Failed state, and
\* never carries both.
C15_SpanAgrees ==
    \A r \in DOMAIN reqs :
        LET q == reqs[r] IN
        q.pc = "Returned"
            => /\ SpanSuccess(q) => ~Failed(q)
               /\ SpanError(q) <=> Failed(q)
               /\ ~(SpanSuccess(q) /\ SpanError(q))

\* The response decision as a function of the request method, the Content-Type
\* value, the processor list and what the invoked processors returned.  The
\* tracer and the span are not among its arguments.
Decision(method, contentType, processors, returns) ==
    IF method # "POST"
    THEN [status |-> StatusMethodNotAllowed, success |-> FALSE,
          message |-> "Invalid request method", invoked |-> <<>>]
    ELSE IF contentType # "application/yaml"
    THEN [status |-> StatusBadRequest, success |-> FALSE,
          message |-> "Invalid content type", invoked |-> <<>>]
    ELSE IF \E j \in 1..Len(returns) : returns[j] # NULL
    THEN LET k == CHOOSE j \in 1..Len(returns) :
                      returns[j] # NULL /\ \A l \in 1..(j - 1) : returns[l] = NULL
         IN  [status |-> StatusInternalServerError, success |-> FALSE,
              message |-> "Failed to process configuration",
              invoked |-> SubSeq(processors, 1, k)]
    ELSE [status |-> StatusOK, success |-> TRUE,
          message |-> "Configuration received", invoked |-> processors]

\* What a returned request decided and did.
Observed(q) ==
    [status |-> q.w.status, success |-> q.written[1].resp.Success,
     message |-> q.written[1].resp.Message, invoked |-> Invocations(q)]

\* C16: the status, the success flag, the message and the sequence of
\* processor invocations of a returned request are a function of its method,
\* its Content-Type, the processor list and the processors' returns alone:
\* handlers that differ in their tracer decide alike.
C16_TracingNoInfluence ==
    \A r \in DOMAIN reqs :
        LET q == reqs[r] IN
        q.pc = "Returned"
            => Observed(q) = Decision(q.method, HeaderGet(q.header),
                                      handler.processors, Returns(q))

\* a processor failure decided under the default tracer, the case a caller's
\* tracer decides alike
C16_Witness ==
    \E r \in DOMAIN reqs :
        /\ reqs[r].pc = "Returned"
        /\ handler.tracer = OtelTracer("config")
        /\ reqs[r].log[1].k = "config"
        /\ ~AllSucceeded(reqs[r])
        /\ reqs[r].w.status = StatusInternalServerError

\* C17: once NewHandler has returned no step changes the handler, a step
\* changes one request only, and every returned request decided as its own
\* method, Content-Type and processor returns call for on the handler as
\* constructed, whatever the other request did before or meanwhile.
C17_Isolation ==
    /\ [][pcNew = "returned" => handler' = handler]_vars
    /\ [][\A r1, r2 \in DOMAIN reqs :
            (r1 # r2 /\ reqs'[r1] # reqs[r1]) => reqs'[r2] = reqs[r2]]_vars
    /\ [](\A r \in DOMAIN reqs :
            reqs[r].pc = "Returned"
                => Observed(reqs[r]) = Decision(reqs[r].method, HeaderGet(reqs[r].header),
                                                handler.processors, Returns(reqs[r])))

\* one request is inside its first of two processors while the other has
\* already failed in its second
C17_Witness ==
    /\ DOMAIN reqs = {1, 2}
    /\ reqs[1].pc = "Processing"
    /\ reqs[1].i = 1
    /\ reqs[2].pc = "Returned"
    /\ Invocations(reqs[2]) = <<"p1", "p2">>
    /\ reqs[2].w.status = StatusInternalServerError

\* The reads of the request body, in order.
Reads(q) == SelectSeq(q.log, LAMBDA e : e.op = "r.Body.Read")

\* The positions in the log of a request's processor invocations.
InvokedAt(q) == {a \in 1..Len(q.log) : q.log[a].op = "p.Process"}

\* The number of body reads among the first a calls of a request.
ReadsBefore(q, a) == Len(SelectSeq(SubSeq(q.log, 1, a), LAMBDA e : e.op = "r.Body.Read"))

\* C18: the processors of a request read one stream with one position: the
\* j-th read of the request delivers byte j, whoever reads, so no byte is
\* delivered twice; a read is made by the processor being invoked; and once
\* the reads made before an invocation have reached the end of the body,
\* that processor and the later ones read nothing.
C18_OneBodyStream ==
    \A r \in DOMAIN reqs :
        LET q == reqs[r]
            R == Reads(q)
        IN  /\ Len(R) = q.pos
            /\ q.pos <= Len(q.body)
            /\ \A j \in 1..Len(R) : R[j].v = q.body[j] /\ R[j].v = j
            /\ \A a \in 1..Len(q.log) :
                   q.log[a].op = "r.Body.Read"
                       => \E b \in InvokedAt(q) :
                              /\ b < a
                              /\ q.log[b].k = q.log[a].k
                              /\ \A c \in (b + 1)..(a - 1) : q.log[c].op \in {"r.Body.Read", "ctx.cancel"}
            /\ \A b \in InvokedAt(q) :
                   ReadsBefore(q, b) = Len(q.body)
                       => ReadsBefore(q, Len(q.log)) = Len(q.body)

\* the first processor read a body of two bytes to its end, and the second
\* was invoked and returned without a read
C18_Witness ==
    \E r \in DOMAIN reqs :
        LET q == reqs[r] IN
        /\ Len(q.body) = 2
        /\ Len(Returns(q)) = 2
        /\ \E b \in InvokedAt(q) :
               /\ ReadsBefore(q, b) = 2
               /\ q.log[b].k = "p2"
        /\ Reads(q)[1].k = "p1"
        /\ Reads(q)[2].k = "p1"

\* The place of a request in Started, MethodChecked, ContentTypeChecked,
\* Processing(1), between processors, Processing(2), ..., and the terminal
\* state, as a number that grows along that order.
Stage(q) ==
    CASE q.pc = "Idle" -> 0
      [] q.pc = "Started" -> 1
      [] q.pc = "MethodChecked" -> 2
      [] q.pc = "ContentTypeChecked" -> 3
      [] q.pc = "Processing" -> 2 + 2 * q.i
      [] q.pc = "Loop" -> 3 + 2 * q.i
      [] q.pc = "Returned" -> 2 * Len(handler.processors) + 6

\* C19: a step never takes a request to an earlier stage or processor index,
\* a step that changes its stage or index takes it strictly forward, a
\* returned request never changes again and has decided once; and, every
\* invoked processor returning, every started request returns.
C19_ForwardOnly ==
    /\ [][\A r \in DOMAIN reqs :
            /\ Stage(reqs'[r]) >= Stage(reqs[r])
            /\ reqs'[r].i >= reqs[r].i
            /\ (reqs'[r].pc # reqs[r].pc \/ reqs'[r].i # reqs[r].i)
                   => Stage(reqs'[r]) > Stage(reqs[r])
            /\ (reqs'[r].pc = "Processing" /\ reqs[r].pc # "Processing")
                   => reqs'[r].i = reqs[r].i + 1
            /\ reqs[r].pc = "Returned" => reqs'[r] = reqs[r]]_vars
    /\ [](\A r \in DOMAIN reqs : reqs[r].pc = "Returned" => Len(reqs[r].written) = 1)
    /\ (reqs[1].pc = "Started") ~> (reqs[1].pc = "Returned")

\* a request that went through both of two processors and returned
C19_Witness ==
    /\ reqs[1].pc = "Returned"
    /\ reqs[1].i = 2
    /\ Len(Returns(reqs[1])) = 2
    /\ Stage(reqs[1]) = 10

\* The position in the log at which the request's context was cancelled, 0
\* when it was not.
CancelledAt(q) ==
    IF \E a \in 1..Len(q.log) : q.log[a].op = "ctx.cancel"
    THEN CHOOSE a \in 1..Len(q.log) : q.log[a].op = "ctx.cancel"
    ELSE 0

\* C20: a returned request whose context was cancelled during handling, and
\* whose processors all returned nil, invoked the whole processor list and
\* was answered 200 with success=true; a valid request invoked fewer
\* processors than registered only when the last one invoked returned an
\* error.
C20_CancellationIgnored ==
    \A r \in DOMAIN reqs :
        LET q == reqs[r] IN
        (q.pc = "Returned" /\ q.cancelled /\ Valid(q))
            => /\ CancelledAt(q) > 0
               /\ AllSucceeded(q)
                    => /\ Invocations(q) = handler.processors
                       /\ Replied(q, StatusOK, TRUE, "Configuration received")
               /\ Invocations(q) # handler.processors
                    => /\ Returns(q) # <<>>
                       /\ Returns(q)[Len(Returns(q))] # NULL
                       /\ Len(Returns(q)) = Len(Invocations(q))

\* the context was cancelled before the first of two processors was invoked,
\* both were invoked all the same, and the answer was 200
C20_Witness ==
    \E r \in DOMAIN reqs :
        LET q == reqs[r] IN
        /\ q.pc = "Returned"
        /\ q.cancelled
        /\ Len(Invocations(q)) = 2
        /\ \A b \in InvokedAt(q) : CancelledAt(q) < b
        /\ CancelledAt(q) > 0
        /\ q.w.status = StatusOK
====
